---- MODULE Spec2Model ----
(***************************************************************************)
(* Model of tasks.py: the invoke task collection that bootstraps the        *)
(* Cosmos development environment.  One process of `inv <task>` is one      *)
(* invocation: the executor expands the requested task's prerequisites,    *)
(* then calls each task in turn; every task body issues shell commands     *)
(* through ctx.run, which raises on a non-zero exit.  The filesystem       *)
(* survives from one invocation to the next.                               *)
(***************************************************************************)
EXTENDS Integers, Sequences, FiniteSets, TLC

\* ------------------------------------------------------------------ bounds
MaxProjects == 2
MaxRuns == 2

\* ------------------------------------------------------------- input sets
Versions == { <<"3", ".", "8">>, <<"3", ".", "1", "0">> }
NoArg == <<>>
Messages == { "fix bug" }
ProjectNames == { "Quark", "Nova" }
HostOS == { "posix", "nt" }

RECURSIVE SeqsUpTo(_, _)
SeqsUpTo(S, n) ==
    IF n = 0 THEN { <<>> }
    ELSE LET shorter == SeqsUpTo(S, n - 1)
         IN shorter \cup { Append(s, x) : s \in shorter, x \in S }

\* repositories.json as the process finds it
Configs ==
    { [kind |-> k, projects |-> <<>>] : k \in { "missing", "undecodable", "noprojects" } }
    \cup { [kind |-> "ok", projects |-> p] :
             p \in SeqsUpTo([name : ProjectNames], MaxProjects) }

\* ----------------------------------------------------------------- state
VARIABLES
    CURRENT_PYTHON_VERSION, \* module constant computed at import
    os_name,                \* os.name of the host
    fs,                     \* directories that exist (paths as the kernel sees them)
    VIRTUAL_ENV,            \* TRUE iff the variable is set in this process
    config,                 \* content of repositories.json
    dedupe,                 \* executor's tasks.dedupe setting of this process
    requested,              \* the task named on the command line, with its arguments
    queue,                  \* calls the executor has not started yet
    status,                 \* "idle" | "running" | "done" | "failed"
    error,                  \* exception that ended the invocation, or "none"
    log,                    \* commands issued by this invocation, in order
    called,                 \* task objects called by this invocation, in order
    bodies,                 \* wrapped functions whose own body was entered
    runs,                   \* invocations started so far
    clones,                 \* clone commands issued over all invocations
    cloneFails              \* clone commands that exited non-zero

vars == << CURRENT_PYTHON_VERSION, os_name, fs, VIRTUAL_ENV, config, dedupe,
           requested, queue, status, error, log, called, bodies, runs,
           clones, cloneFails >>

\* ------------------------------------------------------- paths and names
VenvPrefix == <<"~", ".venv/sandbox_py">>

\* str.replace('.', '')
StripDots(v) == SelectSeq(v, LAMBDA ch : ch # ".")

get_venv_name == VenvPrefix \o StripDots(CURRENT_PYTHON_VERSION)

\* what /bin/sh does with a word that starts with ~/
ShellExpand(p) == IF p # <<>> /\ Head(p) = "~" THEN <<"$HOME">> \o Tail(p) ELSE p

\* os.path.exists: the path is taken literally, ~ is an ordinary name
os_path_exists(files, p) == p \in files

QuarkDir == <<"Quark">>

\* os.path.join
os_path_join(a, b) == a \o << (IF os_name = "nt" THEN "\\" ELSE "/"), b >>

get_activate_cmd ==
    LET activate_script == IF os_name # "nt" THEN "bin/activate" ELSE "Scripts/activate"
    IN [text |-> "source", path |-> os_path_join(get_venv_name, activate_script)]

NoPrefix == [text |-> "", path |-> <<>>]

\* --------------------------------------------------------------- commands
Cmd(text, interp, target) == [text |-> text, interp |-> interp, target |-> target]

CmdVenv(v)    == Cmd("python{python_version} -m venv {venv_name}", v, get_venv_name)
CmdPip(v)     == Cmd("python{python_version} -m pip install poetry", v, <<>>)
CmdPoetryCfg  == Cmd("poetry config virtualenvs.create false", <<>>, <<>>)
CmdPoetryInst == Cmd("poetry install --no-root", <<>>, <<>>)
CmdBlack      == Cmd("black .", <<>>, <<>>)
CmdIsort      == Cmd("isort .", <<>>, <<>>)
CmdRm(pat)    == Cmd("rm -rf {pattern}", <<>>, <<pat>>)
CmdGitAdd     == Cmd("git add .", <<>>, <<>>)
CmdGitCommit(m) == Cmd("git commit -m \"{m}\"", <<>>, <<m>>)
CmdGitPush    == Cmd("git push", <<>>, <<>>)
CmdClone      == Cmd("git clone git@github.com:codes1gn/Quark.git", <<>>, QuarkDir)
CmdBuild      == Cmd("poetry install --no-venv", <<>>, <<>>)
CmdTest       == Cmd("poetry run pytest", <<>>, <<>>)

\* what a successful command leaves on disk
Effect(c, files) ==
    IF c.text = CmdVenv(NoArg).text THEN files \cup { ShellExpand(c.target) }
    ELSE IF c = CmdClone THEN files \cup { QuarkDir }
    ELSE files

\* `cd X && cmd` cannot succeed when X is the companion directory and it is missing
CwdMissing(cwd, files) ==
    \E i \in 1..Len(cwd) : cwd[i] \in { QuarkDir, <<".", "Quark">> } /\ QuarkDir \notin files

\* ------------------------------------------------------------ the context
\* The value threaded through one executor call: the context's cd/prefix
\* stacks, what has been issued, and the exception in flight (if any).
\* k is the position, among the commands of this call, of the one whose
\* process exits non-zero (0: none does).
NewCtx(k) ==
    [ log |-> log, fs |-> fs, n |-> 0, k |-> k, err |-> "none",
      cwd |-> <<>>, prefix |-> NoPrefix, called |-> called, bodies |-> bodies ]

Raise(st, e) == IF st.err # "none" THEN st ELSE [st EXCEPT !.err = e]

\* a run that only warns on a non-zero exit and carries on
Run_warn(st, c) ==
    IF st.err # "none" THEN st
    ELSE LET n == st.n + 1
             bad == n = st.k \/ CwdMissing(st.cwd, st.fs)
             entry == [cmd |-> c, cwd |-> st.cwd, prefix |-> st.prefix,
                       exit |-> IF bad THEN 1 ELSE 0]
         IN [st EXCEPT !.log = Append(@, entry), !.n = n,
                       !.fs = IF bad THEN @ ELSE Effect(c, @)]

\* ctx.run(cmd): issue the command; raise UnexpectedExit on a non-zero exit
Run(st, c) ==
    IF st.err # "none" THEN st
    ELSE LET n == st.n + 1
             bad == n = st.k \/ CwdMissing(st.cwd, st.fs)
             entry == [cmd |-> c, cwd |-> st.cwd, prefix |-> st.prefix,
                       exit |-> IF bad THEN 1 ELSE 0]
         IN IF bad
            THEN [st EXCEPT !.log = Append(@, entry), !.n = n, !.err = "UnexpectedExit"]
            ELSE [st EXCEPT !.log = Append(@, entry), !.n = n, !.fs = Effect(c, @)]

RECURSIVE RunAll(_, _)
RunAll(st, cs) == IF cs = <<>> THEN st ELSE RunAll(Run(st, Head(cs)), Tail(cs))

\* with ctx.cd(path): entering pushes the directory ...
cd_enter(st, path) == [st EXCEPT !.cwd = Append(@, path)]

\* ... and leaving, normally or by an exception, restores what `outer` had
cd_exit(inner, outer) == [inner EXCEPT !.cwd = outer.cwd]

\* with ctx.cd(path): the commands cs, one ctx.run each
RunAllIn(st, path, cs) == cd_exit(RunAll(cd_enter(st, path), cs), st)

\* Task.__call__: the task object calls the function it decorates
Enter(st, t) == IF st.err # "none" THEN st ELSE [st EXCEPT !.called = Append(@, t)]

\* the decorated function's own body starts
EnterBody(st, t) ==
    [st EXCEPT !.bodies = Append(@, [task |-> t, prefix |-> st.prefix])]

Default(v) == IF v = NoArg THEN CURRENT_PYTHON_VERSION ELSE v

\* the functions that @with_venv decorates
configure_poetry_func(st, python_version) ==
    RunAll(st, << CmdPip(Default(python_version)), CmdPoetryCfg >>)

install_deps_func(st) == Run(st, CmdPoetryInst)

format_func(st) == RunAllIn(st, <<".">>, << CmdBlack, CmdIsort >>)

build_quark_func(st) == RunAllIn(st, QuarkDir, << CmdBuild >>)

test_quark_func(st) == RunAllIn(st, QuarkDir, << CmdTest >>)

\* func(ctx, *args, **kwargs)
Func(t, st, python_version) ==
    CASE t = "configure_poetry" -> configure_poetry_func(st, python_version)
      [] t = "install_deps"     -> install_deps_func(st)
      [] t = "format"           -> format_func(st)
      [] t = "build_quark"      -> build_quark_func(st)
      [] t = "test_quark"       -> test_quark_func(st)

\* with_venv(func): the wrapper returned by the decorator
with_venv(st, t, python_version) ==
    IF st.err # "none" THEN st
    ELSE IF ~VIRTUAL_ENV
         THEN LET inner == Func(t, EnterBody([st EXCEPT !.prefix = get_activate_cmd], t),
                                python_version)
              IN [inner EXCEPT !.prefix = st.prefix]
         ELSE st

\* -------------------------------------------------------------- load_config
load_config(st) ==
    CASE config.kind = "missing"     -> Raise(st, "FileNotFoundError")
      [] config.kind = "undecodable" -> Raise(st, "JSONDecodeError")
      [] config.kind = "noprojects"  -> Raise(st, "KeyError")
      [] OTHER                       -> st

\* ------------------------------------------------------------------ tasks
create_env(st, python_version) ==
    Run(Enter(st, "create_env"), CmdVenv(Default(python_version)))

configure_poetry(st, python_version) ==
    with_venv(Enter(st, "configure_poetry"), "configure_poetry", python_version)

install_deps(st) == with_venv(Enter(st, "install_deps"), "install_deps", NoArg)

bootstrap(st, python_version) == Enter(st, "bootstrap")

format(st) == with_venv(Enter(st, "format"), "format", NoArg)

temp_files == << "build", "dist", "*.egg-info", "__pycache__", "*.pyc" >>

clean(st) ==
    LET s0 == Enter(st, "clean")
        venv_name == get_venv_name
        s1 == IF s0.err = "none" /\ os_path_exists(s0.fs, venv_name)
              THEN [s0 EXCEPT !.fs = @ \ { venv_name }]     \* shutil.rmtree
              ELSE s0
    IN RunAll(s1, [i \in 1..Len(temp_files) |-> CmdRm(temp_files[i])])

GitOps(m) == << CmdGitAdd, CmdGitCommit(m), CmdGitPush >>

\* names bound when the loop header of group_commit is evaluated
group_commit_names ==
    { "ctx", "m", "cosmos_dir", "subprojects",
      "json", "os", "shutil", "sys", "wraps", "task", "CURRENT_PYTHON_VERSION",
      "get_venv_name", "is_venv_active", "get_activate_cmd", "with_venv",
      "load_config", "create_env", "configure_poetry", "install_deps",
      "bootstrap", "format", "clean", "group_commit" }

RECURSIVE CommitEach(_, _, _)
CommitEach(st, projs, m) ==
    IF projs = <<>> THEN st
    ELSE LET project_dir == <<".", Head(projs).name>>
             s1 == RunAllIn(st, project_dir, GitOps(m))
         IN CommitEach(s1, Tail(projs), m)

\* group_commit reading its configuration only when it reaches the subprojects
group_commit_lazy(st, m) ==
    LET s0 == Enter(st, "group_commit")
        s1 == RunAllIn(s0, <<".">>, GitOps(m))
        s2 == load_config(s1)
    IN IF "projects" \in group_commit_names
       THEN CommitEach(s2, config.projects, m)
       ELSE Raise(s2, "NameError")

group_commit(st, m) ==
    LET s0 == Enter(st, "group_commit")
        s1 == load_config(s0)
        subprojects == config.projects
        s2 == RunAllIn(s1, <<".">>, GitOps(m))
    IN IF "projects" \in group_commit_names
       THEN CommitEach(s2, subprojects, m)
       ELSE Raise(s2, "NameError")

\* pull_quark without the existence test
pull_quark_always(st) == Run(Enter(st, "pull_quark"), CmdClone)

pull_quark(st) ==
    LET s0 == Enter(st, "pull_quark")
    IN IF s0.err = "none" /\ ~os_path_exists(s0.fs, QuarkDir) THEN Run(s0, CmdClone) ELSE s0

build_quark(st) == with_venv(Enter(st, "build_quark"), "build_quark", NoArg)

test_quark(st) == with_venv(Enter(st, "test_quark"), "test_quark", NoArg)

all(st, python_version) ==
    LET s0 == Enter(st, "all")
        s1 == bootstrap(s0, python_version)
        s2 == pull_quark(s1)
        s3 == build_quark(s2)
    IN test_quark(s3)

\* ---------------------------------------------------------- the executor
Tasks == { "create_env", "configure_poetry", "install_deps", "bootstrap",
           "format", "clean", "group_commit", "pull_quark", "build_quark",
           "test_quark", "all" }

Wrapped == { "configure_poetry", "install_deps", "format", "build_quark", "test_quark" }

TakesVersion == { "create_env", "configure_poetry", "bootstrap", "all" }

\* configure_poetry declared without its prerequisite
pre_short(t) ==
    CASE t = "install_deps"     -> << "create_env", "configure_poetry" >>
      [] t = "bootstrap"        -> << "create_env", "configure_poetry", "install_deps" >>
      [] OTHER                  -> << >>

\* @task(pre=[...])
pre(t) ==
    CASE t = "configure_poetry" -> << "create_env" >>
      [] t = "install_deps"     -> << "create_env", "configure_poetry" >>
      [] t = "bootstrap"        -> << "create_env", "configure_poetry", "install_deps" >>
      [] OTHER                  -> << >>

Call(t, v, m) == [task |-> t, python_version |-> v, m |-> m]

PreCalls(t) == [i \in 1..Len(pre(t)) |-> Call(pre(t)[i], NoArg, "")]

RECURSIVE expand_calls(_)
expand_calls(calls) ==
    IF calls = <<>> THEN <<>>
    ELSE expand_calls(PreCalls(Head(calls).task)) \o << Head(calls) >>
         \o expand_calls(Tail(calls))

RECURSIVE DedupeFrom(_, _)
DedupeFrom(seen, calls) ==
    IF calls = <<>> THEN seen
    ELSE IF \E i \in 1..Len(seen) : seen[i] = Head(calls)
         THEN DedupeFrom(seen, Tail(calls))
         ELSE DedupeFrom(Append(seen, Head(calls)), Tail(calls))

\* a dedupe that keeps every call
dedupe_calls_none(calls) == calls

dedupe_calls(calls) == DedupeFrom(<<>>, calls)

\* call.task(context, **call.kwargs)
TaskCall(st, c) ==
    CASE c.task = "create_env"       -> create_env(st, c.python_version)
      [] c.task = "configure_poetry" -> configure_poetry(st, c.python_version)
      [] c.task = "install_deps"     -> install_deps(st)
      [] c.task = "bootstrap"        -> bootstrap(st, c.python_version)
      [] c.task = "format"           -> format(st)
      [] c.task = "clean"            -> clean(st)
      [] c.task = "group_commit"     -> group_commit(st, c.m)
      [] c.task = "pull_quark"       -> pull_quark(st)
      [] c.task = "build_quark"      -> build_quark(st)
      [] c.task = "test_quark"       -> test_quark(st)
      [] c.task = "all"              -> all(st, c.python_version)

Requests ==
    { Call(t, NoArg, "") : t \in Tasks \ { "group_commit" } }
    \cup { Call(t, v, "") : t \in TakesVersion, v \in Versions }
    \cup { Call("group_commit", NoArg, m) : m \in Messages }

\* the most commands one call of the task can issue
MaxCommands(t) ==
    CASE t = "bootstrap"        -> 0
      [] t = "configure_poetry" -> 2
      [] t = "format"           -> 2
      [] t = "all"              -> 3
      [] t = "clean"            -> Len(temp_files)
      [] t = "group_commit"     -> 3 + 3 * Len(config.projects)
      [] OTHER                  -> 1

Count(s, x) == Cardinality({ i \in 1..Len(s) : s[i] = x })

NewEntries(before, after) == SubSeq(after, Len(before) + 1, Len(after))

\* ----------------------------------------------------------------- actions
Init ==
    /\ CURRENT_PYTHON_VERSION \in Versions
    /\ os_name \in HostOS
    /\ fs \in SUBSET { QuarkDir, get_venv_name }
    /\ VIRTUAL_ENV = FALSE
    /\ config = [kind |-> "missing", projects |-> <<>>]
    /\ dedupe = TRUE
    /\ requested = Call("bootstrap", NoArg, "")
    /\ queue = <<>>
    /\ status = "idle"
    /\ error = "none"
    /\ log = <<>>
    /\ called = <<>>
    /\ bodies = <<>>
    /\ runs = 0
    /\ clones = 0
    /\ cloneFails = 0

\* only group_commit opens repositories.json; for every other task the file
\* is whatever it was
ConfigsSeenBy(t) == IF t = "group_commit" THEN Configs ELSE { config }

\* tasks.dedupe is on unless the process is started with --no-dedupe, which
\* changes nothing for a task without prerequisites
DedupeSettings(t) == IF pre(t) = <<>> THEN { TRUE } ELSE BOOLEAN

\* `inv [--no-dedupe] <task> [args]`: a new process; Executor.execute builds its call list
Invoke(req, venv, dd, cfg) ==
    /\ status # "running"
    /\ runs < MaxRuns
    /\ config' = cfg
    /\ runs' = runs + 1
    /\ requested' = req
    /\ VIRTUAL_ENV' = venv
    /\ dedupe' = dd
    /\ queue' = IF dd THEN dedupe_calls(expand_calls(<< req >>)) ELSE expand_calls(<< req >>)
    /\ status' = "running"
    /\ error' = "none"
    /\ log' = <<>>
    /\ called' = <<>>
    /\ bodies' = <<>>
    /\ UNCHANGED << CURRENT_PYTHON_VERSION, os_name, fs, clones, cloneFails >>

\* one iteration of the executor's loop over its calls
ExecuteCall(k) ==
    /\ status = "running"
    /\ queue # <<>>
    /\ k <= MaxCommands(Head(queue).task)
    /\ LET st == TaskCall(NewCtx(k), Head(queue))
           new == NewEntries(log, st.log)
           issued == { i \in 1..Len(new) : new[i].cmd = CmdClone }
       IN /\ log' = st.log
          /\ fs' = st.fs
          /\ called' = st.called
          /\ bodies' = st.bodies
          /\ error' = st.err
          /\ status' = IF st.err # "none" THEN "failed"
                       ELSE IF Tail(queue) = <<>> THEN "done" ELSE "running"
          /\ clones' = clones + Cardinality(issued)
          /\ cloneFails' = cloneFails + Cardinality({ i \in issued : new[i].exit # 0 })
    /\ queue' = Tail(queue)
    /\ UNCHANGED << CURRENT_PYTHON_VERSION, os_name, VIRTUAL_ENV, config, dedupe,
                    requested, runs >>

Next ==
    \/ \E req \in Requests, venv \in BOOLEAN :
          \E dd \in DedupeSettings(req.task), cfg \in ConfigsSeenBy(req.task) :
              Invoke(req, venv, dd, cfg)
    \/ \E k \in 0..(3 + 3 * MaxProjects) : ExecuteCall(k)

Spec == Init /\ [][Next]_vars

TypeOK ==
    /\ status \in { "idle", "running", "done", "failed" }
    /\ runs \in 0..MaxRuns
    /\ requested \in Requests

\* ------------------------------------------------------------- properties
Texts(l) == [i \in 1..Len(l) |-> l[i].cmd.text]

Issued(l) == [i \in 1..Len(l) |-> [cmd |-> l[i].cmd, cwd |-> l[i].cwd]]

IsPrefix(s, t) == Len(s) <= Len(t) /\ SubSeq(t, 1, Len(s)) = s

Finished == status \in { "done", "failed" }

AllSucceeded == \A i \in 1..Len(log) : log[i].exit = 0

BootstrapChain == << "create_env", "configure_poetry", "install_deps", "bootstrap" >>

BootstrapCommands ==
    << CmdVenv(NoArg).text, CmdPip(NoArg).text, CmdPoetryCfg.text, CmdPoetryInst.text >>

\* C1: every call of a task wrapped by with_venv enters the wrapped body
\* exactly once, with the activation command as prefix when no virtual
\* environment is active and with no prefix when one is.
C1_BodyOncePerCall ==
    /\ \A t \in Wrapped :
          Count(called, t) = Cardinality({ i \in 1..Len(bodies) : bodies[i].task = t })
    /\ \A i \in 1..Len(bodies) :
          bodies[i].prefix = IF VIRTUAL_ENV THEN NoPrefix ELSE get_activate_cmd

\* C2: a completed `all` has issued the bootstrap chain's commands
\* (create the environment, install and configure poetry, install the
\* dependencies), then the clone if needed, then the build, then the tests.
C2_AllRunsBootstrapChain ==
    (requested.task = "all" /\ status = "done") =>
        SelectSeq(Texts(log), LAMBDA x : x # CmdClone.text)
            = BootstrapCommands \o << CmdBuild.text, CmdTest.text >>

GitIn(dir, m) == [i \in 1..3 |-> [cmd |-> GitOps(m)[i], cwd |-> << dir >>]]

RECURSIVE GitInEach(_, _)
GitInEach(projs, m) ==
    IF projs = <<>> THEN <<>>
    ELSE GitIn(<<".", Head(projs).name>>, m) \o GitInEach(Tail(projs), m)

\* C3: group_commit with a readable configuration and every git command
\* succeeding issues add, commit, push in the main directory and then in
\* each listed subproject's directory, in the listed order, and finishes
\* without error.
C3_GroupCommitEveryProject ==
    (requested.task = "group_commit" /\ config.kind = "ok" /\ Finished /\ AllSucceeded) =>
        /\ status = "done"
        /\ Issued(log) = GitIn(<<".">>, requested.m) \o GitInEach(config.projects, requested.m)

\* C4: `inv bootstrap` calls create_env, configure_poetry, install_deps and
\* then bootstrap itself, each exactly once and in that order; a run that
\* completes has called all four, and with no virtual environment active
\* it has issued their four commands in that order.
C4_BootstrapChainOnce ==
    (requested.task = "bootstrap" /\ dedupe) =>
        /\ IsPrefix(called, BootstrapChain)
        /\ status = "done" => called = BootstrapChain
        /\ (status = "done" /\ ~VIRTUAL_ENV) => Texts(log) = BootstrapCommands

C4_Witness ==
    /\ requested.task = "bootstrap" /\ dedupe /\ status = "done" /\ ~VIRTUAL_ENV
    /\ called = BootstrapChain
    /\ Len(log) = 4

\* C5 as stated: a completed `inv install-deps` has called create_env twice,
\* once for each task that declares it.
C5_SharedPrerequisiteTwice ==
    (requested.task = "install_deps" /\ dedupe /\ status = "done") =>
        Count(called, "create_env") = 2

\* C5 amended: the executor deduplicates by default, so a completed
\* `inv install-deps` has called create_env once (and no task twice); only
\* with --no-dedupe is create_env called once per declaring task, twice.
C5_SharedPrerequisiteDeduped ==
    /\ dedupe => \A t \in Tasks : Count(called, t) <= 1
    /\ (requested.task = "install_deps" /\ status = "done") =>
          Count(called, "create_env") = IF dedupe THEN 1 ELSE 2

C5_Witness ==
    /\ requested.task = "install_deps" /\ status = "done"
    /\ ~dedupe
    /\ called = << "create_env", "create_env", "configure_poetry", "install_deps" >>

\* C6: the directory named in every environment-creation command is the
\* fixed prefix followed by the version of the interpreter named in the same
\* command with its dots removed.
C6_EnvNameEmbedsVersion ==
    \A i \in 1..Len(log) :
        log[i].cmd.text = CmdVenv(NoArg).text =>
            log[i].cmd.target = VenvPrefix \o StripDots(log[i].cmd.interp)

\* C7: after a completed clean the environment directory that create_env
\* made (where the shell put it) does not exist.
C7_CleanRemovesEnvironment ==
    (requested.task = "clean" /\ status = "done") =>
        ShellExpand(get_venv_name) \notin fs

PullStarts ==
    /\ status = "running" /\ queue # <<>>
    /\ Head(queue).task \in { "pull_quark", "all" }
    /\ called' # called

\* C8: pull_quark issues the clone exactly when the companion directory is
\* absent, and when it is present issues nothing and ends without error;
\* so as long as no clone has failed at most one clone was ever issued.
C8_CloneIffAbsent ==
    /\ [][PullStarts =>
            /\ (clones' = clones + 1) <=> ~os_path_exists(fs, QuarkDir)
            /\ clones' \in { clones, clones + 1 }
            /\ (os_path_exists(fs, QuarkDir) /\ Head(queue).task = "pull_quark") =>
                   (log' = <<>> /\ status' = "done" /\ error' = "none")]_vars
    /\ [](cloneFails = 0 => clones <= 1)

C8_Witness ==
    /\ requested.task = "pull_quark" /\ status = "done" /\ log = <<>>
    /\ clones = 1 /\ cloneFails = 0 /\ runs = 2

\* C9: a command that exits non-zero is the last command of its invocation
\* and the invocation has failed; once failed, the invocation issues no
\* command and calls no task.
C9_AbortOnFirstFailure ==
    /\ [](\A i \in 1..Len(log) :
             log[i].exit # 0 =>
                 (i = Len(log) /\ status = "failed" /\ error = "UnexpectedExit"))
    /\ [][(status = "failed" /\ runs' = runs) => (log' = log /\ called' = called)]_vars

C9_Witness ==
    /\ requested.task = "bootstrap" /\ status = "failed" /\ error = "UnexpectedExit"
    /\ called = << "create_env" >>
    /\ Len(log) = 1 /\ log[1].exit # 0
    /\ queue # <<>>

\* C10: group_commit with a missing, undecodable or projects-less
\* configuration issues no command at all and ends in failure.
C10_NoGitWithoutConfig ==
    (requested.task = "group_commit" /\ config.kind # "ok") =>
        /\ log = <<>>
        /\ Finished =>
              (status = "failed"
               /\ error \in { "FileNotFoundError", "JSONDecodeError", "KeyError" })

C10_Witness ==
    /\ requested.task = "group_commit" /\ config.kind = "undecodable"
    /\ status = "failed" /\ error = "JSONDecodeError" /\ log = <<>>

====
